---- MODULE Spec2Model ----
(***************************************************************************)
(* LieLens API (api/index.py): the heuristic risk scorer and report        *)
(* synthesizer get_demo_analysis, and the three endpoints that serve it.   *)
(*                                                                         *)
(* A Python str is modelled as a sequence of one-character strings, so     *)
(* that len(), slicing, str.strip(), the `in` test and the two re.search   *)
(* calls are computed character by character.  The alphabet is ASCII.      *)
(***************************************************************************)
EXTENDS Integers, Sequences, FiniteSets, TLC

(***************************************************************************)
(* Bounds of the model (not program constants).                            *)
(***************************************************************************)
\* number of parallel request handlers (serverless instances)
NumHandlers == 2
\* the wall clock takes the values 0..MaxClock
MaxClock == 1
\* a scorer input is built from at most MaxPieces text fragments
MaxPieces == 2
\* a request carries at most MaxPad whitespace characters at each end
MaxPad == 1

(***************************************************************************)
(* Characters.                                                             *)
(***************************************************************************)
UpperCase == << "A", "B", "C", "D", "E", "F", "G", "H", "I", "J", "K", "L", "M",
                "N", "O", "P", "Q", "R", "S", "T", "U", "V", "W", "X", "Y", "Z" >>

LowerCase == << "a", "b", "c", "d", "e", "f", "g", "h", "i", "j", "k", "l", "m",
                "n", "o", "p", "q", "r", "s", "t", "u", "v", "w", "x", "y", "z" >>

UpperLetters == { UpperCase[i] : i \in 1..26 }

\* the lower-case letter of each upper-case letter
ToLower == [c \in UpperLetters |-> LowerCase[CHOOSE i \in 1..26 : UpperCase[i] = c]]

\* the class [A-Z] of the pattern at line 50
IsUpper(c) == c \in UpperLetters

\* the pattern compiled without re.I
CaseFold_case_sensitive(c) == c

\* re.I: a pattern letter matches both cases of that letter
CaseFold(c) == IF IsUpper(c) THEN ToLower[c] ELSE c

\* the characters str.strip() removes (the ASCII ones that occur here)
IsSpace(c) == c \in {" ", "\n", "\t"}

(***************************************************************************)
(* str operations.                                                         *)
(***************************************************************************)
RECURSIVE lstrip(_)
lstrip(s) == IF s # << >> /\ IsSpace(Head(s)) THEN lstrip(Tail(s)) ELSE s

RECURSIVE rstrip(_)
rstrip(s) == IF s # << >> /\ IsSpace(s[Len(s)]) THEN rstrip(SubSeq(s, 1, Len(s) - 1)) ELSE s

\* str.strip() with no argument
strip(s) == rstrip(lstrip(s))

\* the lower-case literal word w of a pattern compiled with re.I matches s at
\* position i: each character of s is compared without regard to case
MatchIgnoreCase(w, s, i) ==
    /\ i + Len(w) - 1 <= Len(s)
    /\ \A k \in 1..Len(w) : CaseFold(s[i + k - 1]) = w[k]

\* x in s, for a one-character x
Contains(s, c) == \E i \in 1..Len(s) : s[i] = c

(***************************************************************************)
(* get_demo_analysis                                                       *)
(***************************************************************************)
\* the alternation with its last word left out
EmotionalWords_without_urgent == {
    << "b", "r", "e", "a", "k", "i", "n", "g" >>,
    << "s", "h", "o", "c", "k", "i", "n", "g" >>,
    << "s", "e", "c", "r", "e", "t" >>,
    << "e", "x", "c", "l", "u", "s", "i", "v", "e" >>,
    << "b", "a", "n", "n", "e", "d" >>,
    << "h", "i", "d", "d", "e", "n" >> }

\* the alternation breaking|shocking|secret|exclusive|banned|hidden|urgent
EmotionalWords == {
    << "b", "r", "e", "a", "k", "i", "n", "g" >>,
    << "s", "h", "o", "c", "k", "i", "n", "g" >>,
    << "s", "e", "c", "r", "e", "t" >>,
    << "e", "x", "c", "l", "u", "s", "i", "v", "e" >>,
    << "b", "a", "n", "n", "e", "d" >>,
    << "h", "i", "d", "d", "e", "n" >>,
    << "u", "r", "g", "e", "n", "t" >> }

\* bool(re.search(r'breaking|...|urgent', content, re.I)): some position of
\* content where one of the alternatives matches
EmotionalPattern(content) ==
    \E i \in 1..Len(content) : \E w \in EmotionalWords : MatchIgnoreCase(w, content, i)

\* the {4,} of the pattern [A-Z]{4,}
CapsRun == 4

\* re.match in place of re.search: the run is looked for at the start only
AllCapsPattern_match_at_start(content) ==
    /\ Len(content) >= CapsRun
    /\ \A k \in 1..CapsRun : IsUpper(content[k])

\* bool(re.search(r'[A-Z]{4,}', content))
AllCapsPattern(content) ==
    \E i \in 1..(Len(content) - CapsRun + 1) : \A k \in 0..(CapsRun - 1) : IsUpper(content[i + k])

BaseScore == 30
CapsBonus == 20
\* line 55 copied from line 57: the emotional-word bonus equal to the all-caps bonus
EmotionalBonus_copied == CapsBonus
EmotionalBonus == 25
ExclamationBonus == 10
ShortPenalty == 10
ShortLength == 100
ScoreCap == 95
HighAbove == 70
MediumAbove == 50
QuestionableAbove == 50
VerifyAbove == 50
ShareBelow == 70
ExampleLength == 100

\* the comparison written <= 100
IsShort_inclusive(content_length) == content_length <= ShortLength

\* content_length < 100
IsShort(content_length) == content_length < ShortLength

\* line 61 written risk_score =- 10: the penalty replaces the score
risk_score_penalty_assigned(has_emotional_words, has_all_caps, has_exclamation, content_length) ==
    IF IsShort(content_length)
    THEN 0 - ShortPenalty
    ELSE BaseScore
         + (IF has_emotional_words THEN EmotionalBonus ELSE 0)
         + (IF has_all_caps THEN CapsBonus ELSE 0)
         + (IF has_exclamation THEN ExclamationBonus ELSE 0)

\* line 55 written risk_score =+ 25: the bonus replaces the base score
risk_score_bonus_assigned(has_emotional_words, has_all_caps, has_exclamation, content_length) ==
    (IF has_emotional_words THEN EmotionalBonus ELSE BaseScore)
    + (IF has_all_caps THEN CapsBonus ELSE 0)
    + (IF has_exclamation THEN ExclamationBonus ELSE 0)
    - (IF IsShort(content_length) THEN ShortPenalty ELSE 0)

\* the local risk_score after the four ifs (lines 53-61)
risk_score(has_emotional_words, has_all_caps, has_exclamation, content_length) ==
    BaseScore
    + (IF has_emotional_words THEN EmotionalBonus ELSE 0)
    + (IF has_all_caps THEN CapsBonus ELSE 0)
    + (IF has_exclamation THEN ExclamationBonus ELSE 0)
    - (IF IsShort(content_length) THEN ShortPenalty ELSE 0)

Min(a, b) == IF a < b THEN a ELSE b

risk_level(score) == IF score > HighAbove THEN "HIGH" ELSE IF score > MediumAbove THEN "MEDIUM" ELSE "LOW"

credibility(score) == IF score > QuestionableAbove THEN "QUESTIONABLE" ELSE "RELIABLE"

share_decision(score) == IF score < ShareBelow THEN "SHARE_WITH_CONTEXT" ELSE "AVOID_SHARING"

immediate_action(score) ==
    IF score > VerifyAbove THEN "Verify claims through multiple credible sources"
    ELSE "Proceed with normal fact-checking"

\* content[:100] + "..." if len(content) > 100 else content
example_from_content(content) ==
    IF Len(content) > ExampleLength THEN SubSeq(content, 1, ExampleLength) \o << ".", ".", "." >>
    ELSE content


\* the dict returned at lines 66-141; the arguments are the locals of lines 48-64
\* and the value of datetime.utcnow()
AnalysisReport(content, content_length, has_emotional, has_caps, score, utcnow) ==
    [ analysis_summary |->
        [ risk_level |-> risk_level(score),
          risk_score |-> Min(score, ScoreCap),
          primary_concern |-> IF has_emotional THEN "Content uses emotional manipulation tactics"
                              ELSE "Content appears relatively neutral",
          credibility_rating |-> credibility(score) ],
      detected_tactics |->
        IF has_emotional
        THEN << [ tactic_name |-> "Emotional Manipulation",
                  description |-> "Uses strong emotional language to bypass critical thinking",
                  example_from_content |-> example_from_content(content),
                  manipulation_type |-> "EMOTIONAL" ] >>
        ELSE << [ tactic_name |-> "Demo Mode Active",
                  description |-> "This is a demonstration response showing system capabilities",
                  example_from_content |-> << "S", "a", "m", "p", "l", "e", " ",
                                              "a", "n", "a", "l", "y", "s", "i", "s" >>,
                  manipulation_type |-> "LOGICAL" ] >>,
      cognitive_biases |->
        << [ bias_name |-> "Fear of Missing Out (FOMO)",
             explanation |-> "The tendency to feel anxiety about missing beneficial opportunities",
             how_its_exploited |-> "Content suggests exclusive or time-limited information",
             resistance_tip |-> "Ask yourself: What's the real urgency? Can I verify this independently?" ] >>,
      fact_check_flags |->
        IF has_emotional
        THEN << [ claim |-> "Claims require verification",
                  flag_reason |-> "Vague or unsupported claims detected",
                  verification_suggestion |-> "Look for peer-reviewed studies and credible sources" ] >>
        ELSE << >>,
      educational_insights |->
        [ why_convincing |-> IF has_emotional THEN "Uses emotional triggers to create trust and urgency"
                             ELSE "Content appears straightforward",
          target_audience |-> "People seeking exclusive information or solutions",
          psychological_appeal |-> IF has_emotional THEN "Combines fear, hope, and exclusivity"
                                   ELSE "Neutral presentation",
          critical_questions |-> << "What evidence supports these claims?",
                                    "Who are the sources cited?",
                                    "What might be the motivation behind this content?",
                                    "Are there alternative explanations?" >>,
          verification_steps |-> << "Search for peer-reviewed research on this topic",
                                    "Check multiple reputable sources",
                                    "Look for expert opinions from relevant fields",
                                    "Consider potential conflicts of interest" >> ],
      recommendations |->
        [ immediate_action |-> immediate_action(score),
          further_research |-> << "Search scientific databases",
                                  "Check fact-checking websites",
                                  "Consult domain experts" >>,
          share_decision |-> share_decision(score),
          learning_opportunity |-> "Practice identifying emotional manipulation in content" ],
      confidence_metrics |->
        [ analysis_confidence |-> 75,
          data_completeness |-> 60,
          context_availability |-> "PARTIAL" ],
      metadata |->
        [ analysis_timestamp |-> utcnow,
          model_used |-> "demo-mode-vercel",
          content_length |-> content_length,
          source_type |-> "text" ] ]

\* get_demo_analysis(content), called when the clock reads utcnow
get_demo_analysis(content, utcnow) ==
    AnalysisReport(content,
                   Len(content),
                   EmotionalPattern(content),
                   AllCapsPattern(content),
                   risk_score(EmotionalPattern(content), AllCapsPattern(content),
                              Contains(content, "!"), Len(content)),
                   utcnow)

(***************************************************************************)
(* Requests.                                                               *)
(***************************************************************************)
\* Field(..., min_length=10, max_length=10000)
min_length == 10
max_length == 10000

\* pydantic's check of AnalysisRequest.content: the length of the string as sent
ValidRequest(request) ==
    /\ Len(request.content) >= min_length
    /\ Len(request.content) <= max_length

\* demo_content of get_demo_analysis_endpoint, the triple-quoted literal with
\* its line ends and indentation
demo_content == <<
    "\n", " ", " ", " ", " ", "B", "R", "E", "A", "K", "I", "N", "G", ":", " ", "S",
    "c", "i", "e", "n", "t", "i", "s", "t", "s", " ", "S", "H", "O", "C", "K", "E",
    "D", " ", "b", "y", " ", "t", "h", "i", "s", " ", "s", "i", "m", "p", "l", "e",
    " ", "t", "r", "i", "c", "k", " ", "t", "h", "a", "t", " ", "B", "i", "g", " ",
    "P", "h", "a", "r", "m", "a", " ", "H", "A", "T", "E", "S", "!", " ", "\n", " ",
    " ", " ", " ", "T", "h", "e", "y", " ", "d", "o", "n", "'", "t", " ", "w", "a",
    "n", "t", " ", "y", "o", "u", " ", "t", "o", " ", "k", "n", "o", "w", " ", "t",
    "h", "i", "s", " ", "o", "n", "e", " ", "s", "e", "c", "r", "e", "t", " ", "t",
    "h", "a", "t", " ", "c", "o", "u", "l", "d", " ", "s", "a", "v", "e", " ", "y",
    "o", "u", "r", " ", "l", "i", "f", "e", ".", " ", "\n", " ", " ", " ", " ", "T",
    "h", "o", "u", "s", "a", "n", "d", "s", " ", "o", "f", " ", "p", "e", "o", "p",
    "l", "e", " ", "a", "r", "e", " ", "a", "l", "r", "e", "a", "d", "y", " ", "u",
    "s", "i", "n", "g", " ", "t", "h", "i", "s", ",", " ", "b", "u", "t", " ", "t",
    "h", "e", " ", "m", "a", "i", "n", "s", "t", "r", "e", "a", "m", " ", "m", "e",
    "d", "i", "a", " ", "w", "o", "n", "'", "t", " ", "r", "e", "p", "o", "r", "t",
    " ", "i", "t", ".", " ", "\n", " ", " ", " ", " ", "A", "c", "t", " ", "f", "a",
    "s", "t", " ", "-", " ", "t", "h", "i", "s", " ", "i", "n", "f", "o", "r", "m",
    "a", "t", "i", "o", "n", " ", "m", "i", "g", "h", "t", " ", "b", "e", " ", "t",
    "a", "k", "e", "n", " ", "d", "o", "w", "n", " ", "s", "o", "o", "n", "!", "\n",
    " ", " ", " ", " " >>

(***************************************************************************)
(* Inputs.                                                                 *)
(***************************************************************************)
\* n copies of the character c
Repeat(c, n) == [i \in 1..n |-> c]

\* s followed by filler up to length n (s itself when it is already that long)
PadTo(s, n) == IF Len(s) >= n THEN s ELSE s \o Repeat("z", n - Len(s))

RECURSIVE Concat(_)
Concat(ps) == IF ps = << >> THEN << >> ELSE Head(ps) \o Concat(Tail(ps))

\* text fragments a scorer input is assembled from
Pieces == {
    << "b", "r", "e", "a", "k", "i", "n", "g" >>,
    << "B", "r", "E", "a", "K", "i", "N", "g" >>,
    << "B", "R", "E", "A", "K", "I", "N", "G" >>,
    << "s", "h", "o", "c", "k", "i", "n", "g" >>,
    << "s", "e", "c", "r", "e", "t" >>,
    << "e", "x", "c", "l", "u", "s", "i", "v", "e" >>,
    << "b", "a", "n", "n", "e", "d" >>,
    << "h", "i", "d", "d", "e", "n" >>,
    << "u", "r", "g", "e", "n", "t" >>,
    << "A", "B", "C", "D" >>,
    << "A", "B", "C" >>,
    << "!" >>,
    << " ", "p", "l", "a", "i", "n", " ", "t", "e", "x", "t", " " >> }

\* lengths a scorer input is filled up to (0: not filled)
ScorerLengths == {0, ShortLength - 1, ShortLength, ShortLength + 1}

\* the strings get_demo_analysis is called with directly
ScorerInputs ==
    { PadTo(Concat(ps), n) : ps \in UNION { [1..k -> Pieces] : k \in 0..MaxPieces },
                             n \in ScorerLengths }

\* the text of the requests posted to /analyze
RequestText == << "U", "R", "G", "E", "N", "T", "!" >>

\* lengths of the content field as sent, around min_length and the penalty
RequestLengths == {min_length - 1, min_length, ShortLength}

\* lengths of the content field as sent, around max_length
LongRequestLengths == {max_length, max_length + 1}

\* content fields as sent: p blanks, the text filled up, p line ends; the
\* longest ones come without blanks
RequestContents ==
    { Repeat(" ", p) \o PadTo(RequestText, n - 2 * p) \o Repeat("\n", p) :
        p \in 0..MaxPad, n \in RequestLengths }
    \cup { PadTo(RequestText, n) : n \in LongRequestLengths }

\* content_type, left at its default; no endpoint reads it
ContentTypes == {"auto"}

AnalysisRequests == [content : RequestContents, content_type : ContentTypes]

(***************************************************************************)
(* State.                                                                  *)
(***************************************************************************)
Handlers == 1..NumHandlers

VARIABLES
    handler,    \* per handler: the request it serves and the response it built
    now,        \* the wall clock read by datetime.utcnow()
    call        \* a direct call of get_demo_analysis: its argument and result

vars == << handler, now, call >>

Idle == [pc |-> "idle"]
NoCall == [pc |-> "none"]

Init ==
    /\ handler = [h \in Handlers |-> Idle]
    /\ now = 0
    /\ call = NoCall

(***************************************************************************)
(* The endpoints.                                                          *)
(***************************************************************************)
\* POST /analyze arrives: the body is parsed into AnalysisRequest; a body
\* that fails the Field constraints is answered 422 and analyze_content is
\* not called
Post(h, request) ==
    /\ handler[h].pc = "idle"
    /\ handler' = [handler EXCEPT ![h] =
          IF ValidRequest(request)
          THEN [pc |-> "analyze_content", endpoint |-> "/analyze", request |-> request]
          ELSE [pc |-> "responded", endpoint |-> "/analyze", request |-> request,
                status |-> 422]]
    /\ UNCHANGED << now, call >>

\* analyze_content with content kept in a module-level variable: the handler
\* scores whatever a handler running at the same time stored there last
analyze_content_shared_content(h) ==
    /\ handler[h].pc = "analyze_content"
    /\ \E g \in { f \in Handlers : handler[f].pc = "analyze_content" } :
          LET content == strip(handler[g].request.content)
          IN handler' = [handler EXCEPT ![h] =
                [pc |-> "responded", endpoint |-> "/analyze", request |-> handler[h].request,
                 status |-> 200, content |-> content,
                 body |-> get_demo_analysis(content, now)]]
    /\ UNCHANGED << now, call >>

\* the body of analyze_content
analyze_content(h) ==
    /\ handler[h].pc = "analyze_content"
    /\ LET content == strip(handler[h].request.content)
       IN handler' = [handler EXCEPT ![h] =
             [pc |-> "responded", endpoint |-> "/analyze", request |-> handler[h].request,
              status |-> 200, content |-> content,
              body |-> get_demo_analysis(content, now)]]
    /\ UNCHANGED << now, call >>

\* GET /demo
get_demo_analysis_endpoint(h) ==
    /\ handler[h].pc = "idle"
    /\ handler' = [handler EXCEPT ![h] =
          [pc |-> "responded", endpoint |-> "/demo", status |-> 200,
           content |-> demo_content,
           body |-> get_demo_analysis(demo_content, now)]]
    /\ UNCHANGED << now, call >>

\* GET /
health_check(h) ==
    /\ handler[h].pc = "idle"
    /\ handler' = [handler EXCEPT ![h] =
          [pc |-> "responded", endpoint |-> "/", status |-> 200,
           body |-> [status |-> "healthy - demo mode active",
                     timestamp |-> now,
                     version |-> "1.0.0-vercel"]]]
    /\ UNCHANGED << now, call >>

\* the response leaves; the handler takes the next request
Respond(h) ==
    /\ handler[h].pc = "responded"
    /\ handler' = [handler EXCEPT ![h] = Idle]
    /\ UNCHANGED << now, call >>

\* time passes
Tick ==
    /\ now < MaxClock
    /\ now' = now + 1
    /\ UNCHANGED << handler, call >>

Next ==
    \/ \E h \in Handlers, request \in AnalysisRequests : Post(h, request)
    \/ \E h \in Handlers : analyze_content(h)
    \/ \E h \in Handlers : get_demo_analysis_endpoint(h)
    \/ \E h \in Handlers : health_check(h)
    \/ \E h \in Handlers : Respond(h)
    \/ Tick

Spec == Init /\ [][Next]_vars

(***************************************************************************)
(* The scorer on its own: get_demo_analysis called directly on a string.   *)
(***************************************************************************)
ScorerInit ==
    /\ handler = [h \in Handlers |-> Idle]
    /\ now \in 0..MaxClock
    /\ call \in [pc : {"ready"}, content : ScorerInputs]

Score ==
    /\ call.pc = "ready"
    /\ call' = [pc |-> "returned", content |-> call.content,
                result |-> get_demo_analysis(call.content, now)]
    /\ UNCHANGED << handler, now >>

ScorerNext == Score

ScorerSpec == ScorerInit /\ [][ScorerNext]_vars

(***************************************************************************)
(* Vocabulary of the properties, stated on the text itself.                *)
(***************************************************************************)
\* the completed calls of get_demo_analysis visible in a state: argument and report
Calls ==
    { [content |-> handler[h].content, report |-> handler[h].body] :
        h \in { g \in Handlers : /\ handler[g].pc = "responded"
                                 /\ handler[g].endpoint \in {"/analyze", "/demo"}
                                 /\ handler[g].status = 200 } }
    \cup (IF call.pc = "returned"
          THEN { [content |-> call.content, report |-> call.result] }
          ELSE { })

\* the seven words of the lexicon
Lexicon == {
    << "b", "r", "e", "a", "k", "i", "n", "g" >>,
    << "s", "h", "o", "c", "k", "i", "n", "g" >>,
    << "s", "e", "c", "r", "e", "t" >>,
    << "e", "x", "c", "l", "u", "s", "i", "v", "e" >>,
    << "b", "a", "n", "n", "e", "d" >>,
    << "h", "i", "d", "d", "e", "n" >>,
    << "u", "r", "g", "e", "n", "t" >> }

\* s with every upper-case letter replaced by its lower-case letter
LowerOf(s) == [i \in 1..Len(s) |-> IF s[i] \in UpperLetters THEN ToLower[s[i]] ELSE s[i]]

\* w is a substring of s, letter case disregarded
HasWordAnyCase(s, w) ==
    \E i \in 1..(Len(s) - Len(w) + 1) : LowerOf(SubSeq(s, i, i + Len(w) - 1)) = w

HasLexiconWord(s) == \E w \in Lexicon : HasWordAnyCase(s, w)

\* s has 4 or more consecutive letters A-Z
HasUpperRun(s) ==
    \E i \in 1..(Len(s) - 3) : \A j \in i..(i + 3) : s[j] \in UpperLetters

HasBang(s) == \E i \in 1..Len(s) : s[i] = "!"

Bit(b) == IF b THEN 1 ELSE 0

\* the score the additive rule gives a text
RuleScore(s) ==
    30 + 25 * Bit(HasLexiconWord(s)) + 20 * Bit(HasUpperRun(s)) + 10 * Bit(HasBang(s))
       - 10 * Bit(Len(s) < 100)

Summary(c) == c.report.analysis_summary

(***************************************************************************)
(* C1: for every content string the reported risk_score is                 *)
(* min(30 + 25*[lexicon word, any case] + 20*[run of 4 or more A-Z]        *)
(*     + 10*['!'] - 10*[len < 100], 95); a content of exactly 100          *)
(* characters gets no length penalty, one of 99 characters does.           *)
(***************************************************************************)
C1_ScoreRule ==
    \A c \in Calls :
        Summary(c).risk_score = (IF RuleScore(c.content) < 95 THEN RuleScore(c.content) ELSE 95)

\* a 100-character content with all three signals was scored 85, no penalty
C1_Witness ==
    /\ call.pc = "returned"
    /\ Len(call.content) = 100
    /\ HasLexiconWord(call.content) /\ HasUpperRun(call.content) /\ HasBang(call.content)
    /\ call.result.analysis_summary.risk_score = 85

(***************************************************************************)
(* C2: in every report analysis_summary.risk_score is in [0, 95],          *)
(* whichever combination of signals fires.                                 *)
(***************************************************************************)
C2_ScoreRange ==
    \A c \in Calls : Summary(c).risk_score \in 0..95

\* a short content without any signal was scored: the lowest score
C2_Witness ==
    /\ call.pc = "returned"
    /\ Len(call.content) < 100
    /\ ~HasLexiconWord(call.content) /\ ~HasUpperRun(call.content) /\ ~HasBang(call.content)
    /\ call.result.analysis_summary.risk_score \in 0..95

(***************************************************************************)
(* C4 as stated: every content that contains "breaking" in any letter case *)
(* and contains '!' scores 65 when its length is at least 100 and 55 when  *)
(* it is below 100, and its risk_level is "MEDIUM".                        *)
(***************************************************************************)
Breaking == << "b", "r", "e", "a", "k", "i", "n", "g" >>

C4_AsStated ==
    \A c \in Calls :
        HasWordAnyCase(c.content, Breaking) /\ HasBang(c.content)
        => /\ Summary(c).risk_score = (IF Len(c.content) >= 100 THEN 65 ELSE 55)
           /\ Summary(c).risk_level = "MEDIUM"

(***************************************************************************)
(* C4 amended: every content that contains "breaking" in any letter case,  *)
(* contains '!' and has no run of 4 or more upper-case letters scores 65   *)
(* when its length is at least 100 and 55 when it is below 100, and its    *)
(* risk_level is "MEDIUM".                                                 *)
(***************************************************************************)
C4_WithoutCapsRun ==
    \A c \in Calls :
        HasWordAnyCase(c.content, Breaking) /\ HasBang(c.content) /\ ~HasUpperRun(c.content)
        => /\ Summary(c).risk_score = (IF Len(c.content) >= 100 THEN 65 ELSE 55)
           /\ Summary(c).risk_level = "MEDIUM"

\* a short content with "breaking" in mixed case and '!' was scored 55, MEDIUM
C4_Witness ==
    /\ call.pc = "returned"
    /\ HasWordAnyCase(call.content, Breaking) /\ ~SubSeq(call.content, 1, 8) = Breaking
    /\ HasBang(call.content) /\ ~HasUpperRun(call.content)
    /\ Len(call.content) = 9
    /\ call.result.analysis_summary.risk_score = 55
    /\ call.result.analysis_summary.risk_level = "MEDIUM"

(***************************************************************************)
(* C8: detected_tactics has exactly one entry; manipulation_type is        *)
(* "EMOTIONAL" iff fact_check_flags is non-empty (exactly one entry) iff   *)
(* the content contains a lexicon word; otherwise manipulation_type is     *)
(* "LOGICAL" and fact_check_flags is the empty sequence.                   *)
(***************************************************************************)
C8_EmotionalSectionsAgree ==
    \A c \in Calls :
        /\ Len(c.report.detected_tactics) = 1
        /\ IF HasLexiconWord(c.content)
           THEN /\ c.report.detected_tactics[1].manipulation_type = "EMOTIONAL"
                /\ Len(c.report.fact_check_flags) = 1
           ELSE /\ c.report.detected_tactics[1].manipulation_type = "LOGICAL"
                /\ c.report.fact_check_flags = << >>

\* a content whose only lexicon word is "urgent" was reported EMOTIONAL with one flag
C8_Witness ==
    /\ call.pc = "returned"
    /\ HasWordAnyCase(call.content, << "u", "r", "g", "e", "n", "t" >>)
    /\ call.result.detected_tactics[1].manipulation_type = "EMOTIONAL"
    /\ Len(call.result.fact_check_flags) = 1

(***************************************************************************)
(* C9: no content scores 70, so share_decision is "AVOID_SHARING" iff      *)
(* risk_level is "HIGH", and "SHARE_WITH_CONTEXT" otherwise.               *)
(***************************************************************************)
C9_ShareFollowsLevel ==
    \A c \in Calls :
        /\ Summary(c).risk_score # 70
        /\ c.report.recommendations.share_decision =
              (IF Summary(c).risk_level = "HIGH" THEN "AVOID_SHARING" ELSE "SHARE_WITH_CONTEXT")

\* a report with risk_level HIGH and share_decision AVOID_SHARING
C9_Witness ==
    /\ call.pc = "returned"
    /\ call.result.analysis_summary.risk_level = "HIGH"
    /\ call.result.recommendations.share_decision = "AVOID_SHARING"

(***************************************************************************)
(* C10: the score is always one of 20, 30, 40, 45, 50, 55, 60, 65, 75, 85  *)
(* (never negative, never above 85, so the clamp at 95 leaves it as it     *)
(* is), and risk_level, credibility_rating, immediate_action and           *)
(* share_decision agree with the reported risk_score.                      *)
(***************************************************************************)
C10_ScoreValues ==
    \A c \in Calls :
        LET reported == Summary(c).risk_score
        IN /\ reported \in {20, 30, 40, 45, 50, 55, 60, 65, 75, 85}
           /\ Summary(c).risk_level =
                 (IF reported > 70 THEN "HIGH" ELSE IF reported > 50 THEN "MEDIUM" ELSE "LOW")
           /\ Summary(c).credibility_rating =
                 (IF reported > 50 THEN "QUESTIONABLE" ELSE "RELIABLE")
           /\ c.report.recommendations.immediate_action =
                 (IF reported > 50 THEN "Verify claims through multiple credible sources"
                  ELSE "Proceed with normal fact-checking")
           /\ c.report.recommendations.share_decision =
                 (IF reported >= 70 THEN "AVOID_SHARING" ELSE "SHARE_WITH_CONTEXT")

\* a content with a lexicon word and no other signal, 100 long, scored 55: MEDIUM
C10_Witness ==
    /\ call.pc = "returned"
    /\ call.result.analysis_summary.risk_score = 55
    /\ Len(call.content) >= 100
    /\ call.result.analysis_summary.risk_level = "MEDIUM"
    /\ call.result.recommendations.share_decision = "SHARE_WITH_CONTEXT"

(***************************************************************************)
(* The responses of the endpoints.                                         *)
(***************************************************************************)
\* handlers holding the report of a request to one of the given endpoints
Reported(endpoints) ==
    { h \in Handlers : /\ handler[h].pc = "responded"
                       /\ handler[h].endpoint \in endpoints
                       /\ handler[h].status = 200 }

\* handlers holding any response to POST /analyze
Answered == { h \in Handlers : handler[h].pc = "responded" /\ handler[h].endpoint = "/analyze" }

\* s without its leading and trailing whitespace
Trimmed(s) ==
    IF \A i \in 1..Len(s) : s[i] \in {" ", "\n", "\t"}
    THEN << >>
    ELSE LET first == CHOOSE i \in 1..Len(s) :
                         /\ s[i] \notin {" ", "\n", "\t"}
                         /\ \A j \in 1..(i - 1) : s[j] \in {" ", "\n", "\t"}
             back == CHOOSE n \in 0..(Len(s) - 1) :
                         /\ s[Len(s) - n] \notin {" ", "\n", "\t"}
                         /\ \A j \in (Len(s) - n + 1)..Len(s) : s[j] \in {" ", "\n", "\t"}
         IN SubSeq(s, first, Len(s) - back)

\* the text a request asks to analyse, as the client supplied it
Analysed(h) == IF handler[h].endpoint = "/demo" THEN demo_content ELSE handler[h].request.content

(***************************************************************************)
(* C3: the content passed to get_demo_analysis by POST /analyze has a      *)
(* length between 10 and 10000 measured after trimming; a request whose    *)
(* trimmed content is shorter than 10 or longer than 10000 characters is   *)
(* rejected and never reaches the scorer.                                  *)
(***************************************************************************)
C3_TrimmedLengthBounds ==
    /\ \A h \in Reported({"/analyze"}) : Len(handler[h].content) \in 10..10000
    /\ \A h \in Answered :
          Len(Trimmed(handler[h].request.content)) \notin 10..10000 => handler[h].status # 200

(***************************************************************************)
(* C5: in every report of /analyze and of /demo, metadata.content_length   *)
(* is the length of the analysed content after trimming, and the length    *)
(* penalty is decided on that trimmed length.                              *)
(***************************************************************************)
C5_ContentLengthTrimmed ==
    \A h \in Reported({"/analyze", "/demo"}) :
        LET trimmed == Trimmed(Analysed(h))
        IN /\ handler[h].body.metadata.content_length = Len(trimmed)
           /\ handler[h].body.analysis_summary.risk_score =
                 30 + 25 * Bit(HasLexiconWord(handler[h].content))
                    + 20 * Bit(HasUpperRun(handler[h].content))
                    + 10 * Bit(HasBang(handler[h].content))
                    - 10 * Bit(Len(trimmed) < 100)

(***************************************************************************)
(* C6: GET /demo always reports risk_score 85, risk_level "HIGH",          *)
(* credibility_rating "QUESTIONABLE", detected_tactics[0].manipulation_type*)
(* "EMOTIONAL" and a non-empty fact_check_flags list.                      *)
(***************************************************************************)
C6_DemoReport ==
    \A h \in Reported({"/demo"}) :
        /\ handler[h].body.analysis_summary.risk_score = 85
        /\ handler[h].body.analysis_summary.risk_level = "HIGH"
        /\ handler[h].body.analysis_summary.credibility_rating = "QUESTIONABLE"
        /\ handler[h].body.detected_tactics[1].manipulation_type = "EMOTIONAL"
        /\ handler[h].body.fact_check_flags # << >>

\* /demo was served while another handler was in the middle of a POST /analyze
C6_Witness ==
    \E h, g \in Handlers :
        /\ h \in Reported({"/demo"})
        /\ handler[h].body.analysis_summary.risk_score = 85
        /\ handler[g].pc = "analyze_content"

(***************************************************************************)
(* C7: two requests with identical content get reports that are identical  *)
(* in every field except metadata.analysis_timestamp, whatever else is     *)
(* served before, between or concurrently.                                 *)
(***************************************************************************)
WithoutTimestamp(report) == [report EXCEPT !.metadata.analysis_timestamp = 0]

SameRequest(h, g) ==
    /\ handler[h].endpoint = handler[g].endpoint
    /\ handler[h].endpoint = "/analyze" => handler[h].request.content = handler[g].request.content

C7_ReportDependsOnContentOnly ==
    \A h, g \in Reported({"/analyze", "/demo"}) :
        SameRequest(h, g) => WithoutTimestamp(handler[h].body) = WithoutTimestamp(handler[g].body)

\* two handlers hold reports of the same posted content, made at different times
C7_Witness ==
    \E h, g \in Reported({"/analyze"}) :
        /\ h # g
        /\ handler[h].request.content = handler[g].request.content
        /\ handler[h].body.metadata.analysis_timestamp # handler[g].body.metadata.analysis_timestamp
        /\ WithoutTimestamp(handler[h].body) = WithoutTimestamp(handler[g].body)

====
